---------------------------- MODULE Spec2Model ----------------------------
(***************************************************************************)
(* 3D Forge: the code-generation sandbox (src/src/utils/sandbox.js), the   *)
(* relay's extraction step (src/server.js), the Scene Host                 *)
(* (SceneViewer, src/unnamed/part_000), the chat component                 *)
(* (src/src/components/chat.js) and the application glue                   *)
(* (App, src/src/utils/exporters.js).                                      *)
(*                                                                         *)
(* Text is a sequence of one-character strings, so that the regular        *)
(* expressions of the source (word boundaries, optional parts, lazy        *)
(* captures, case folding) are computed character by character.            *)
(* An error message is a sequence of text segments; concatenation is \o    *)
(* and the text 'Security violation', the only text the source searches a  *)
(* message for, is a segment of its own wherever it occurs.                *)
(***************************************************************************)
EXTENDS Naturals, Sequences, FiniteSets

VARIABLES
    viewer,       \* SceneViewer: scene.children, userObjects, the camera
    nextId,       \* the identity the next constructed node gets
    messages,     \* ChatComponent: the children of messagesContainer
    chat,         \* ChatComponent: isLoading, sendBtn, input
    overlay,      \* App: the loading overlay and the viewer overlay
    pending,      \* the generateCode calls awaiting the relay's answer
    submissions,  \* how many messages were sent
    lastExec,     \* history: the last pass of handleGenerate after its await
    shared,       \* THREE.Cache.m: the identity of the node stored there (0: unset)
    requests,     \* how many requests to /api/generate the page has made
    log,          \* history: the passes of handleGenerate and the clear clicks
    exported,     \* <<>>, or the scene last handed to a serializer
    vCode,        \* SpecValidate: the fragment handed to executeThreeJSCode
    vOut,         \* SpecValidate: <<>> before the call, <<completion>> after it
    cParts,       \* SpecClean: the parts of the raw text handed to cleanCode
    cOut          \* SpecClean: <<>> before the call, <<text>> after it

appVars ==
    <<viewer, nextId, messages, chat, overlay, pending, submissions, lastExec,
      shared, requests, log, exported>>

pureVars == <<vCode, vOut, cParts, cOut>>

vars == <<appVars, pureVars>>

-----------------------------------------------------------------------------
(* Characters                                                              *)

LowerLetters ==
    {"a", "b", "c", "d", "e", "f", "g", "h", "i", "j", "k", "l", "m",
     "n", "o", "p", "q", "r", "s", "t", "u", "v", "w", "x", "y", "z"}

UpperLetters ==
    {"A", "B", "C", "D", "E", "F", "G", "H", "I", "J", "K", "L", "M",
     "N", "O", "P", "Q", "R", "S", "T", "U", "V", "W", "X", "Y", "Z"}

Digits == {"0", "1", "2", "3", "4", "5", "6", "7", "8", "9"}

\* \w of a JavaScript regular expression
WordChars == LowerLetters \cup UpperLetters \cup Digits \cup {"_"}

\* \s of a JavaScript regular expression, and what String.prototype.trim strips
WhiteSpace == {" ", "\n", "\t", "\r", "\f"}

LowerOf ==
    [c \in UpperLetters |->
        CASE c = "A" -> "a" [] c = "B" -> "b" [] c = "C" -> "c" [] c = "D" -> "d"
          [] c = "E" -> "e" [] c = "F" -> "f" [] c = "G" -> "g" [] c = "H" -> "h"
          [] c = "I" -> "i" [] c = "J" -> "j" [] c = "K" -> "k" [] c = "L" -> "l"
          [] c = "M" -> "m" [] c = "N" -> "n" [] c = "O" -> "o" [] c = "P" -> "p"
          [] c = "Q" -> "q" [] c = "R" -> "r" [] c = "S" -> "s" [] c = "T" -> "t"
          [] c = "U" -> "u" [] c = "V" -> "v" [] c = "W" -> "w" [] c = "X" -> "x"
          [] c = "Y" -> "y" [] c = "Z" -> "z"]

\* the case folding of the i flag
Fold(c) == IF c \in UpperLetters THEN LowerOf[c] ELSE c

-----------------------------------------------------------------------------
(* Text                                                                    *)

\* w occurs in s at index i, character for character
OccursAt(s, i, w) ==
    /\ i >= 1
    /\ i + Len(w) - 1 <= Len(s)
    /\ \A k \in 1..Len(w) : s[i + k - 1] = w[k]

\* w occurs in s at index i up to case (the i flag)
OccursAtFold(s, i, w) ==
    /\ i >= 1
    /\ i + Len(w) - 1 <= Len(s)
    /\ \A k \in 1..Len(w) : Fold(s[i + k - 1]) = Fold(w[k])

\* String.prototype.includes
Includes(s, w) == \E i \in 1..(Len(s) + 1) : OccursAt(s, i, w)

\* the least index >= from at which w occurs in s, or 0
IndexFrom(s, w, from) ==
    IF \E i \in from..(Len(s) + 1) : OccursAt(s, i, w)
    THEN CHOOSE i \in from..(Len(s) + 1) :
            /\ OccursAt(s, i, w)
            /\ \A j \in from..(i - 1) : ~OccursAt(s, j, w)
    ELSE 0

IsWordAt(s, i) == i >= 1 /\ i <= Len(s) /\ s[i] \in WordChars

\* \b between s[i-1] and s[i] (i = 1: the start, i = Len(s)+1: the end)
BoundaryBefore(s, i) == IsWordAt(s, i - 1) # IsWordAt(s, i)

\* the least index >= i that holds no white space (Len(s)+1 when none)
RECURSIVE SkipSpace(_, _)
SkipSpace(s, i) ==
    IF i <= Len(s) /\ s[i] \in WhiteSpace THEN SkipSpace(s, i + 1) ELSE i

\* String.prototype.trim
RECURSIVE TrimLeft(_)
TrimLeft(s) ==
    IF s # <<>> /\ s[1] \in WhiteSpace THEN TrimLeft(Tail(s)) ELSE s

RECURSIVE TrimRight(_)
TrimRight(s) ==
    IF s # <<>> /\ s[Len(s)] \in WhiteSpace
    THEN TrimRight(SubSeq(s, 1, Len(s) - 1))
    ELSE s

Trim(s) == TrimRight(TrimLeft(s))

\* the concatenation of a sequence of texts
RECURSIVE Flatten(_)
Flatten(ss) == IF ss = <<>> THEN <<>> ELSE Head(ss) \o Flatten(Tail(ss))

-----------------------------------------------------------------------------
(* Code Extractor: sandbox.js, cleanCode; server.js, the relay's own       *)
(* extraction                                                              *)

\* the backtick character (the lexer of TLA+ accepts none inside a string)
BT == "U+0060"

S_fence      == <<BT, BT, BT>>
S_javascript == <<"j", "a", "v", "a", "s", "c", "r", "i", "p", "t">>
S_js         == <<"j", "s">>

\* the hint group without its js alternative: (?:javascript)?
AfterHint_JavascriptOnly(raw, j) ==
    (IF OccursAt(raw, j, S_javascript) THEN <<j + Len(S_javascript)>> ELSE <<>>)
    \o <<j>>

\* (?:javascript|js)? tried at index j: the indices after it, in the order
\* the matcher tries them (javascript, then js, then nothing)
AfterHint(raw, j) ==
    (IF OccursAt(raw, j, S_javascript) THEN <<j + Len(S_javascript)>> ELSE <<>>)
    \o (IF OccursAt(raw, j, S_js) THEN <<j + Len(S_js)>> ELSE <<>>)
    \o <<j>>

\* \n? tried at index j: the indices after it, in the order tried
AfterNewline(raw, j) ==
    (IF j <= Len(raw) /\ raw[j] = "\n" THEN <<j + 1>> ELSE <<>>) \o <<j>>

\* the indices at which the capture may start for an opening marker at i, in
\* the order the backtracking matcher tries them
CaptureStarts(raw, i) ==
    LET hs == AfterHint(raw, i + Len(S_fence))
    IN Flatten([k \in DOMAIN hs |-> AfterNewline(raw, hs[k])])

\* ([\s\S]*?)``` from index p: the lazy capture ends at the first marker
CaptureFrom(raw, p) ==
    LET close == IndexFrom(raw, S_fence, p)
    IN IF close = 0 THEN <<>> ELSE <<SubSeq(raw, p, close - 1)>>

\* the regular expression tried at index i: <<>> (no match) or <<capture>>
FenceMatchAt(raw, i) ==
    IF ~OccursAt(raw, i, S_fence)
    THEN <<>>
    ELSE LET starts == CaptureStarts(raw, i)
             ok     == {k \in DOMAIN starts : CaptureFrom(raw, starts[k]) # <<>>}
         IN IF ok = {}
            THEN <<>>
            ELSE CaptureFrom(raw, starts[CHOOSE k \in ok : \A m \in ok : k <= m])

\* code.match(/```(?:javascript|js)?\n?([\s\S]*?)```/): the leftmost match
FenceMatch(raw) ==
    LET at == {i \in 1..Len(raw) : FenceMatchAt(raw, i) # <<>>}
    IN IF at = {} THEN <<>>
       ELSE FenceMatchAt(raw, CHOOSE i \in at : \A j \in at : i <= j)

\* cleanCode(rawCode)
cleanCode(rawCode) ==
    LET codeBlockMatch == FenceMatch(rawCode)
    IN Trim(IF codeBlockMatch # <<>> THEN codeBlockMatch[1] ELSE rawCode)

\* server.js: aiResponse.match(/```javascript\n([\s\S]*?)```/), then
\* codeMatch ? codeMatch[1].trim() : aiResponse
ServerExtract(aiResponse) ==
    LET open == S_fence \o S_javascript \o <<"\n">>
        at   == {i \in 1..Len(aiResponse) :
                    /\ OccursAt(aiResponse, i, open)
                    /\ CaptureFrom(aiResponse, i + Len(open)) # <<>>}
    IN IF at = {}
       THEN aiResponse
       ELSE Trim(CaptureFrom(aiResponse,
                    (CHOOSE i \in at : \A j \in at : i <= j) + Len(open))[1])

-----------------------------------------------------------------------------
(* The answers of the upstream model that the application is run with     *)

\* what the upstream model may answer (data.choices[0].message.content)
A_plain == <<BT, BT, BT, "j", "a", "v", "a", "s", "c", "r", "i", "p", "t", "\n", "f", "u", "n", "c", "t", "i", "o", "n", " ", "c", "r", "e", "a", "t", "e", "O", "b", "j", "e", "c", "t", "(", ")", "{", "}", "\n", BT, BT, BT>>
A_add   == <<"H", "e", "r", "e", " ", "y", "o", "u", " ", "g", "o", ":", "\n", BT, BT, BT, "j", "s", "\n", "a", "p", "p", ".", "v", "i", "e", "w", "e", "r", ".", "a", "d", "d", "O", "b", "j", "e", "c", "t", "(", "n", "e", "w", " ", "T", "H", "R", "E", "E", ".", "M", "e", "s", "h", "(", ")", ")", ";", "f", "u", "n", "c", "t", "i", "o", "n", " ", "c", "r", "e", "a", "t", "e", "O", "b", "j", "e", "c", "t", "(", ")", "{", "}", "\n", BT, BT, BT>>
A_clear == <<BT, BT, BT, "j", "a", "v", "a", "s", "c", "r", "i", "p", "t", "\n", "a", "p", "p", ".", "v", "i", "e", "w", "e", "r", ".", "c", "l", "e", "a", "r", "U", "s", "e", "r", "O", "b", "j", "e", "c", "t", "s", "(", ")", ";", "f", "u", "n", "c", "t", "i", "o", "n", " ", "c", "r", "e", "a", "t", "e", "O", "b", "j", "e", "c", "t", "(", ")", "{", "}", "\n", BT, BT, BT>>
A_fetch == <<BT, BT, BT, "j", "a", "v", "a", "s", "c", "r", "i", "p", "t", "\n", "f", "u", "n", "c", "t", "i", "o", "n", " ", "c", "r", "e", "a", "t", "e", "O", "b", "j", "e", "c", "t", "(", ")", "{", "f", "e", "t", "c", "h", "(", "'", "/", "x", "'", ")", "}", "\n", BT, BT, BT>>
A_cache == <<BT, BT, BT, "j", "a", "v", "a", "s", "c", "r", "i", "p", "t", "\n", "f", "u", "n", "c", "t", "i", "o", "n", " ", "c", "r", "e", "a", "t", "e", "O", "b", "j", "e", "c", "t", "(", ")", "{", "r", "e", "t", "u", "r", "n", " ", "T", "H", "R", "E", "E", ".", "C", "a", "c", "h", "e", ".", "m", "|", "|", "=", "n", "e", "w", " ", "T", "H", "R", "E", "E", ".", "M", "e", "s", "h", "(", ")", "}", "\n", BT, BT, BT>>
A_prose == <<"S", "o", "r", "r", "y", ",", " ", "n", "o", ".">>

AiResponses == {A_plain, A_add, A_clear, A_fetch, A_cache, A_prose}

-----------------------------------------------------------------------------
(* Static Validator: sandbox.js, FORBIDDEN_PATTERNS and validateCode       *)

\* Each rule is \b word tail, under the i flag. tail "spaceThen" is \s* and
\* the character ch; "space1" is \s+; "boundary" is \b. source is the
\* RegExp's source text, which the rejection reason quotes.
FORBIDDEN_PATTERNS == <<
    [word |-> <<"f", "e", "t", "c", "h">>,
     tail |-> "spaceThen", ch |-> "(", source |-> "\\bfetch\\s*\\("],
    [word |-> <<"e", "v", "a", "l">>,
     tail |-> "spaceThen", ch |-> "(", source |-> "\\beval\\s*\\("],
    [word |-> <<"F", "u", "n", "c", "t", "i", "o", "n">>,
     tail |-> "spaceThen", ch |-> "(", source |-> "\\bFunction\\s*\\("],
    [word |-> <<"d", "o", "c", "u", "m", "e", "n", "t">>,
     tail |-> "spaceThen", ch |-> ".", source |-> "\\bdocument\\s*\\."],
    [word |-> <<"w", "i", "n", "d", "o", "w">>,
     tail |-> "spaceThen", ch |-> ".", source |-> "\\bwindow\\s*\\."],
    [word |-> <<"i", "m", "p", "o", "r", "t">>,
     tail |-> "space1", ch |-> "", source |-> "\\bimport\\s+"],
    [word |-> <<"r", "e", "q", "u", "i", "r", "e">>,
     tail |-> "spaceThen", ch |-> "(", source |-> "\\brequire\\s*\\("],
    [word |-> <<"l", "o", "c", "a", "l", "S", "t", "o", "r", "a", "g", "e">>,
     tail |-> "boundary", ch |-> "", source |-> "\\blocalStorage\\b"],
    [word |-> <<"s", "e", "s", "s", "i", "o", "n", "S", "t", "o", "r", "a", "g", "e">>,
     tail |-> "boundary", ch |-> "", source |-> "\\bsessionStorage\\b"],
    [word |-> <<"c", "o", "o", "k", "i", "e">>,
     tail |-> "boundary", ch |-> "", source |-> "\\bcookie\\b"],
    [word |-> <<"X", "M", "L", "H", "t", "t", "p", "R", "e", "q", "u", "e", "s", "t">>,
     tail |-> "boundary", ch |-> "", source |-> "\\bXMLHttpRequest\\b"],
    [word |-> <<"W", "e", "b", "S", "o", "c", "k", "e", "t">>,
     tail |-> "boundary", ch |-> "", source |-> "\\bWebSocket\\b"],
    [word |-> <<"w", "o", "r", "k", "e", "r">>,
     tail |-> "boundary", ch |-> "", source |-> "\\bworker\\b"],
    [word |-> <<"s", "e", "t", "T", "i", "m", "e", "o", "u", "t">>,
     tail |-> "spaceThen", ch |-> "(", source |-> "\\bsetTimeout\\s*\\("],
    [word |-> <<"s", "e", "t", "I", "n", "t", "e", "r", "v", "a", "l">>,
     tail |-> "spaceThen", ch |-> "(", source |-> "\\bsetInterval\\s*\\("],
    [word |-> <<"_", "_", "p", "r", "o", "t", "o", "_", "_">>,
     tail |-> "boundary", ch |-> "", source |-> "\\b__proto__\\b"],
    [word |-> <<"p", "r", "o", "t", "o", "t", "y", "p", "e">>,
     tail |-> "boundary", ch |-> "", source |-> "\\bprototype\\b"],
    [word |-> <<"c", "o", "n", "s", "t", "r", "u", "c", "t", "o", "r">>,
     tail |-> "spaceThen", ch |-> "[", source |-> "\\bconstructor\\s*\\["]
>>

S_functionCreateObject == <<"f", "u", "n", "c", "t", "i", "o", "n", " ", "c", "r", "e", "a", "t", "e", "O", "b", "j", "e", "c", "t">>

\* the tail of a rule, tried at index j (the index after the word)
TailMatches(p, code, j) ==
    CASE p.tail = "spaceThen" ->
            LET k == SkipSpace(code, j) IN k <= Len(code) /\ code[k] = p.ch
      [] p.tail = "space1"    -> j <= Len(code) /\ code[j] \in WhiteSpace
      [] p.tail = "boundary"  -> BoundaryBefore(code, j)

\* pattern.test(code)
PatternTest(p, code) ==
    \E i \in 1..Len(code) :
        /\ BoundaryBefore(code, i)
        /\ OccursAtFold(code, i, p.word)
        /\ TailMatches(p, code, i + Len(p.word))

SecurityViolation(p) ==
    <<"Security violation", ": Forbidden pattern detected (", p.source, ")">>

StructuralReason ==
    <<"Code must contain a \"function createObject()\" definition">>

\* the index of the first rule of the list that matches, or 0
FirstForbidden(code) ==
    IF \E n \in DOMAIN FORBIDDEN_PATTERNS : PatternTest(FORBIDDEN_PATTERNS[n], code)
    THEN CHOOSE n \in DOMAIN FORBIDDEN_PATTERNS :
            /\ PatternTest(FORBIDDEN_PATTERNS[n], code)
            /\ \A m \in 1..(n - 1) : ~PatternTest(FORBIDDEN_PATTERNS[m], code)
    ELSE 0

\* validateCode with the structural requirement checked before the deny-list
validateCode_StructuralFirst(code) ==
    IF ~Includes(code, S_functionCreateObject)
    THEN [valid |-> FALSE, error |-> StructuralReason]
    ELSE IF FirstForbidden(code) # 0
         THEN [valid |-> FALSE,
               error |-> SecurityViolation(FORBIDDEN_PATTERNS[FirstForbidden(code)])]
         ELSE [valid |-> TRUE, error |-> <<>>]

\* validateCode without the structural requirement
validateCode_NoStructural(code) ==
    IF FirstForbidden(code) # 0
    THEN [valid |-> FALSE,
          error |-> SecurityViolation(FORBIDDEN_PATTERNS[FirstForbidden(code)])]
    ELSE [valid |-> TRUE, error |-> <<>>]

\* validateCode: {valid, error}; error <<>> is null
validateCode(code) ==
    LET n == FirstForbidden(code) IN
    IF n # 0
    THEN [valid |-> FALSE, error |-> SecurityViolation(FORBIDDEN_PATTERNS[n])]
    ELSE IF ~Includes(code, S_functionCreateObject)
         THEN [valid |-> FALSE, error |-> StructuralReason]
         ELSE [valid |-> TRUE, error |-> <<>>]

-----------------------------------------------------------------------------
(* Scene Host: SceneViewer (src/unnamed/part_000)                          *)

\* A scene-graph node. id is the object's identity.
Node(id, kind, material) ==
    [id |-> id, kind |-> kind, material |-> material, castShadow |-> FALSE]

NoNode == Node(0, "none", "none")

\* setupLighting and setupGrid: the infrastructure nodes, in the order added
InfraNodes == <<
    Node(1, "AmbientLight", "none"),
    [Node(2, "DirectionalLight", "none") EXCEPT !.castShadow = TRUE],
    Node(3, "DirectionalLight", "none"),
    Node(4, "DirectionalLight", "none"),
    Node(5, "GridHelper", "LineBasicMaterial"),
    Node(6, "Mesh", "ShadowMaterial")
>>

\* the first identity user code can be given
FirstUserId == Len(InfraNodes) + 1

\* camera 0: the default position; n: focused on the node of identity n
InitViewer == [children |-> InfraNodes, userObjects |-> <<>>, camera |-> 0]

WithoutId(seq, id) == SelectSeq(seq, LAMBDA n : n.id # id)

\* object.traverse(child => if (child.isMesh) castShadow = receiveShadow = true)
EnableShadows(obj) ==
    IF obj.kind = "Mesh" THEN [obj EXCEPT !.castShadow = TRUE] ELSE obj

\* scene.add(object): the object leaves its parent, then is pushed
SceneAdd(children, obj) == Append(WithoutId(children, obj.id), obj)

\* SceneViewer.addObject, applied to a value (see Values below)
addObject(v, value) ==
    IF ~value.isObject3D
    THEN v
    ELSE LET obj == EnableShadows(value.node)
             upd(seq) == [i \in DOMAIN seq |->
                            IF seq[i].id = obj.id THEN obj ELSE seq[i]]
         IN [children    |-> SceneAdd(upd(v.children), obj),
             userObjects |-> Append(upd(v.userObjects), obj),
             camera      |-> obj.id]

\* SceneViewer.clearUserObjects
clearUserObjects(v) ==
    [children    |-> SelectSeq(v.children,
                        LAMBDA n : \A i \in DOMAIN v.userObjects :
                                        v.userObjects[i].id # n.id),
     userObjects |-> <<>>,
     camera      |-> v.camera]

-----------------------------------------------------------------------------
(* JavaScript values that a fragment can return or throw                   *)

\* repr tells values apart; nullish: null or undefined; typeof: typeof v;
\* truthy: !!v; ctorName: v.constructor?.name ("" when absent or empty);
\* msgKind: what v.message is ("absent": undefined, "string", "other",
\* "trap": an object whose includes() throws null);
\* msg: the segments of v.message when it is a string.
Value(repr, nullish, typeof, truthy, ctorName) ==
    [repr |-> repr, nullish |-> nullish, typeof |-> typeof, truthy |-> truthy,
     ctorName |-> ctorName, isObject3D |-> FALSE,
     msgKind |-> "absent", msg |-> <<>>, node |-> NoNode]

V_null      == Value("null", TRUE, "object", FALSE, "")
V_undefined == Value("undefined", TRUE, "undefined", FALSE, "")
V_zero      == Value("0", FALSE, "number", FALSE, "Number")
V_false     == Value("false", FALSE, "boolean", FALSE, "Boolean")
V_NaN       == Value("NaN", FALSE, "number", FALSE, "Number")
V_empty     == Value("''", FALSE, "string", FALSE, "String")
V_number    == Value("42", FALSE, "number", TRUE, "Number")
V_string    == Value("'oops'", FALSE, "string", TRUE, "String")
V_plain     == Value("{}", FALSE, "object", TRUE, "Object")
V_noCtor    == Value("Object.create(null)", FALSE, "object", TRUE, "")
\* { constructor: { name: 'Security violation' } }
V_fakeCtor  == Value("{constructor:{name:'Security violation'}}",
                     FALSE, "object", TRUE, "Security violation")

\* { message: { includes() { throw null } } }
V_trap ==
    [Value("{message:{includes(){throw null}}}", FALSE, "object", TRUE, "Object")
        EXCEPT !.msgKind = "trap"]

\* new Error(message) (name: Error, TypeError, SyntaxError)
ErrorValue(name, message) ==
    [Value(name, FALSE, "object", TRUE, name)
        EXCEPT !.msgKind = "string", !.msg = message]

\* a THREE.Object3D of the given kind, newly constructed; ShadowMesh: a
\* THREE.Mesh made with a THREE.ShadowMaterial
NodeValue(id, kind) ==
    [Value(kind, FALSE, "object", TRUE, kind)
        EXCEPT !.isObject3D = TRUE,
               !.node = IF kind = "ShadowMesh"
                        THEN Node(id, "Mesh", "ShadowMaterial")
                        ELSE Node(id, kind, "MeshStandardMaterial")]

-----------------------------------------------------------------------------
(* What a fragment does when it is run. The text of a fragment decides     *)
(* what the Validator says; its behaviour is what the text means as a      *)
(* program, and is drawn independently of the characters the Validator     *)
(* looks at.                                                               *)
(*   outcome "syntaxError": new Function throws; nothing runs              *)
(*           "noEntry":     createObject is not a function after the run   *)
(*           "throws":      createObject throws value                      *)
(*           "returns":     createObject returns value                     *)
(*           "returnsNode": createObject returns a new THREE.<kind>        *)
(*           "returnsCached": createObject returns THREE.Cache.m, which it *)
(*                          sets to a new THREE.<kind> when it is unset    *)
(*   effect: new Function compiles the body in the global scope, where     *)
(*           window.app = new App() (exporters.js) is the binding app, so  *)
(*           a fragment that passes the deny-list can call                 *)
(*           app.viewer.addObject(new THREE.Mesh()) ("addObject") or       *)
(*           app.viewer.clearUserObjects() ("clear"); "none": it does not  *)
(***************************************************************************)
Behaviour(effect, outcome, value, kind) ==
    [effect |-> effect, outcome |-> outcome, value |-> value, kind |-> kind]

-----------------------------------------------------------------------------
(* Sandboxed Executor: sandbox.js, executeThreeJSCode                      *)

\* What a call produced: threw and the value thrown or returned; compiled:
\* how many times the fragment was handed to new Function; ran: how many
\* times the compiled fragment was run; createCalls: how many times the
\* harness invoked createObject; viewer: the Scene Host after the call;
\* store: THREE.Cache.m after the call; allocated: how many node identities
\* the run consumed.
Completion(threw, value, compiled, ran, createCalls, host, store, allocated) ==
    [threw |-> threw, value |-> value, compiled |-> compiled, ran |-> ran,
     createCalls |-> createCalls, viewer |-> host, store |-> store,
     allocated |-> allocated]

\* what the fragment does to the Scene Host through the global scope
ApplyEffect(effect, v, fresh) ==
    CASE effect = "none"      -> v
      [] effect = "addObject" -> addObject(v, NodeValue(fresh, "Mesh"))
      [] effect = "clear"     -> clearUserObjects(v)

EffectAllocates(effect) == IF effect = "addObject" THEN 1 ELSE 0

\* lines 72-82: new Function('THREE', ...) and createObjectFn(THREE)
RunFragment(beh, v, store, fresh) ==
    IF beh.outcome = "syntaxError"
    THEN Completion(TRUE, ErrorValue("SyntaxError", <<"Unexpected token">>),
                    1, 0, 0, v, store, 0)
    ELSE LET v2 == ApplyEffect(beh.effect, v, fresh)
             n  == EffectAllocates(beh.effect)
         IN CASE beh.outcome = "noEntry" ->
                    Completion(TRUE,
                               ErrorValue("Error", <<"createObject function not found">>),
                               1, 1, 0, v2, store, n)
              [] beh.outcome = "throws" ->
                    Completion(TRUE, beh.value, 1, 1, 1, v2, store, n)
              [] beh.outcome = "returns" ->
                    Completion(FALSE, beh.value, 1, 1, 1, v2, store, n)
              [] beh.outcome = "returnsNode" ->
                    Completion(FALSE, NodeValue(fresh + n, beh.kind),
                               1, 1, 1, v2, store, n + 1)
              [] beh.outcome = "returnsCached" ->
                    IF store = 0
                    THEN Completion(FALSE, NodeValue(fresh + n, beh.kind),
                                    1, 1, 1, v2, fresh + n, n + 1)
                    ELSE Completion(FALSE, NodeValue(store, beh.kind),
                                    1, 1, 1, v2, store, n)

\* lines 84-93: the type check of the result
CheckResult(c) ==
    IF ~c.value.truthy
    THEN [c EXCEPT !.threw = TRUE,
                   !.value = ErrorValue("Error",
                                <<"createObject() returned null or undefined">>)]
    ELSE IF ~c.value.isObject3D
    THEN [c EXCEPT !.threw = TRUE,
                   !.value = ErrorValue("Error",
                                <<"Expected THREE.Object3D but got ",
                                  IF c.value.ctorName # "" THEN c.value.ctorName
                                                           ELSE c.value.typeof>>)]
    ELSE c

\* error.message.includes('Security violation')
MessageIncludes(msg, segment) == \E i \in DOMAIN msg : msg[i] = segment

\* lines 95-101: the catch block, given the completion that threw
Rethrow(c) ==
    LET error == c.value IN
    IF error.nullish
    THEN [c EXCEPT !.value = ErrorValue("TypeError",
            <<"Cannot read properties of ", error.repr, " (reading 'message')">>)]
    ELSE IF error.msgKind = "absent"
    THEN [c EXCEPT !.value = ErrorValue("TypeError",
            <<"Cannot read properties of undefined (reading 'includes')">>)]
    ELSE IF error.msgKind = "other"
    THEN [c EXCEPT !.value = ErrorValue("TypeError",
            <<"error.message.includes is not a function">>)]
    ELSE IF error.msgKind = "trap"
    THEN [c EXCEPT !.value = V_null]
    ELSE IF MessageIncludes(error.msg, "Security violation")
    THEN c
    ELSE [c EXCEPT !.value = ErrorValue("Error",
            <<"Code execution failed: ">> \o error.msg)]

\* lines 69-101: the try block and its catch
TryBlock(beh, v, store, fresh) ==
    LET ran     == RunFragment(beh, v, store, fresh)
        checked == IF ran.threw THEN ran ELSE CheckResult(ran)
    IN IF checked.threw THEN Rethrow(checked) ELSE checked

\* executeThreeJSCode without step 1: the fragment is run unvalidated
executeThreeJSCode_Unvalidated(codeString, beh, v, store, fresh) ==
    TryBlock(beh, v, store, fresh)

\* executeThreeJSCode(codeString), for a fragment of behaviour beh, with the
\* Scene Host in state v, THREE.Cache.m in state store and fresh the next
\* unused node identity
executeThreeJSCode(codeString, beh, v, store, fresh) ==
    LET validation == validateCode(codeString) IN
    IF ~validation.valid
    THEN Completion(TRUE, ErrorValue("Error", validation.error),
                    0, 0, 0, v, store, 0)
    ELSE TryBlock(beh, v, store, fresh)

-----------------------------------------------------------------------------
(* Bounds and input sets                                                   *)

\* a fragment is the concatenation of at most MaxPieces pieces
MaxPieces == 3

\* the inner text of a fenced block is at most MaxInnerPieces pieces
MaxInnerPieces == 2

S_fetch     == <<"f", "e", "t", "c", "h">>
S_fetchCall == <<"f", "e", "t", "c", "h", "(">>
S_Eval      == <<"E", "v", "a", "l">>
S_prototype == <<"p", "r", "o", "t", "o", "t", "y", "p", "e">>
S_emptyBody == <<"(", ")", "{", "}">>
S_comment   == <<"/", "/", " ">>
S_py        == <<"p", "y">>

FragmentPieces ==
    {S_fetch, <<"(">>, <<" ">>, <<"x">>, <<".">>, S_functionCreateObject,
     S_emptyBody, S_comment, S_prototype, S_Eval}

\* the concatenations of at most n texts of the set pieces
TextsOf(pieces, n) ==
    {Flatten(ps) : ps \in UNION {[1..k -> pieces] : k \in 0..n}}

Fragments == TextsOf(FragmentPieces, MaxPieces)

\* behaviours the fragments of SpecValidate are run with
ValidateBehaviours ==
    {Behaviour("none", "returnsNode", V_undefined, "Mesh"),
     Behaviour("none", "noEntry", V_undefined, "none")}

InnerPieces == {<<"x">>, <<" ">>, <<"\n">>, <<BT>>, S_js, S_javascript}

InnerTexts == TextsOf(InnerPieces, MaxInnerPieces)

Hints == {<<>>, S_js, S_javascript, S_py}

\* a raw text: prefix, the opening marker, a hint, an optional newline, the
\* inner text, the closing marker (when closed), suffix
RawParts ==
    [prefix : {<<>>, <<"x", " ">>},
     hint   : Hints,
     nl     : {<<>>, <<"\n">>},
     inner  : InnerTexts,
     closed : BOOLEAN,
     suffix : {<<>>, S_fence \o S_js \o <<"\n", "y">> \o S_fence}]

Assemble(parts) ==
    parts.prefix \o S_fence \o parts.hint \o parts.nl \o parts.inner
    \o (IF parts.closed THEN S_fence ELSE <<>>) \o parts.suffix

NoParts ==
    [prefix |-> <<>>, hint |-> <<>>, nl |-> <<>>, inner |-> <<>>,
     closed |-> FALSE, suffix |-> <<>>]

-----------------------------------------------------------------------------
(* The application: App (exporters.js), ChatComponent (chat.js),           *)
(* generateCode (part_000), the relay (server.js)                          *)

\* how many messages the user sends
MaxSubmissions == 2

S_callAddObject == <<"a", "p", "p", ".", "v", "i", "e", "w", "e", "r", ".", "a", "d", "d", "O", "b", "j", "e", "c", "t", "(">>
S_callClear     == <<"a", "p", "p", ".", "v", "i", "e", "w", "e", "r", ".", "c", "l", "e", "a", "r", "U", "s", "e", "r", "O", "b", "j", "e", "c", "t", "s", "(">>
S_cube          == <<"c", "u", "b", "e">>
S_cacheRef      == <<"T", "H", "R", "E", "E", ".", "C", "a", "c", "h", "e", ".", "m">>

\* what the textarea may hold
InputTexts == {<<>>, <<" ">>, S_cube}

\* the statement a fragment runs at its top level, read off its text
FragmentEffect(code) ==
    IF Includes(code, S_callAddObject) THEN "addObject"
    ELSE IF Includes(code, S_callClear) THEN "clear"
    ELSE "none"

\* what createObject may do
ThrownValues ==
    {ErrorValue("Error", <<"boom">>),
     ErrorValue("Error", <<"Security violation">>),
     V_string, V_null, V_trap}

ReturnedValues ==
    {V_null, V_undefined, V_zero, V_false, V_NaN, V_empty, V_number,
     V_plain, V_noCtor, V_fakeCtor}

NodeKinds == {"Mesh", "Group"}

Outcomes ==
    {Behaviour("none", "syntaxError", V_undefined, "none"),
     Behaviour("none", "noEntry", V_undefined, "none")}
    \cup {Behaviour("none", "throws", x, "none") : x \in ThrownValues}
    \cup {Behaviour("none", "returns", x, "none") : x \in ReturnedValues}
    \cup {Behaviour("none", "returnsNode", V_undefined, k) : k \in NodeKinds}

\* a fragment with a top-level statement or a call in its body is run with
\* fewer outcomes
FewOutcomes ==
    {Behaviour("none", "throws", ErrorValue("Error", <<"boom">>), "none"),
     Behaviour("none", "returns", V_null, "none"),
     Behaviour("none", "returnsNode", V_undefined, "Mesh")}

\* a text without createObject in it does not compile, or compiles to a body
\* in which typeof createObject is not 'function'
NoEntryOutcomes ==
    {Behaviour("none", "syntaxError", V_undefined, "none"),
     Behaviour("none", "noEntry", V_undefined, "none")}

\* a fragment whose createObject returns THREE.Cache.m
CacheOutcomes == {Behaviour("none", "returnsCached", V_undefined, "Mesh")}

\* the behaviours of the fragment of text code
BehavioursOf(code) ==
    LET e == FragmentEffect(code)
    IN {[b EXCEPT !.effect = e] :
          b \in (IF ~Includes(code, S_functionCreateObject) THEN NoEntryOutcomes
                 ELSE IF Includes(code, S_cacheRef) THEN CacheOutcomes
                 ELSE IF e = "none" /\ ~Includes(code, S_fetchCall) THEN Outcomes
                 ELSE FewOutcomes)}

\* process.env.OPENROUTER_API_KEY ("": not set)
RealKey == "sk-or-v1"

ApiKeys == {"", "your_api_key_here", RealKey}

\* what the relay's request to the upstream model comes to: the fetch
\* rejects, or answers with a status and data.choices[0].message.content
UpstreamRejects == [rejects |-> TRUE, status |-> 0, content |-> <<>>]

UpstreamAnswer(status, content) ==
    [rejects |-> FALSE, status |-> status, content |-> content]

\* response.ok
IsOk(status) == status \in 200..299

\* what the relay answers: the status, the body {success, code, error}, and
\* how many requests it made upstream
Reply(status, success, code, error, upstreamRequests) ==
    [status |-> status, success |-> success, code |-> code, error |-> error,
     upstreamRequests |-> upstreamRequests]

\* the relay without its test of the API key (lines 55-57)
apiGenerate_NoKeyCheck(message, apiKey, up) ==
    IF message = <<>>
    THEN Reply(400, FALSE, <<>>, <<"Message is required">>, 0)
    ELSE IF up.rejects
    THEN Reply(500, FALSE, <<>>, <<"Internal server error">>, 1)
    ELSE IF ~IsOk(up.status)
    THEN Reply(up.status, FALSE, <<>>, <<"Failed to generate 3D code">>, 1)
    ELSE Reply(200, TRUE, ServerExtract(up.content), <<>>, 1)

\* app.post('/api/generate') with the API key apiKey, when the upstream
\* request comes to up
apiGenerate(message, apiKey, up) ==
    IF message = <<>>
    THEN Reply(400, FALSE, <<>>, <<"Message is required">>, 0)
    ELSE IF apiKey = "" \/ apiKey = "your_api_key_here"
    THEN Reply(500, FALSE, <<>>, <<"OpenRouter API key not configured">>, 0)
    ELSE IF up.rejects
    THEN Reply(500, FALSE, <<>>, <<"Internal server error">>, 1)
    ELSE IF ~IsOk(up.status)
    THEN Reply(up.status, FALSE, <<>>, <<"Failed to generate 3D code">>, 1)
    ELSE Reply(200, TRUE, ServerExtract(up.content), <<>>, 1)

\* where a request is made: whether the relay can be reached, its API key,
\* and what its upstream request comes to
Environment(reachable, apiKey, up) ==
    [reachable |-> reachable, apiKey |-> apiKey, up |-> up]

RelayEnvironments ==
    {Environment(FALSE, RealKey, UpstreamAnswer(200, A_plain))}
    \cup {Environment(TRUE, k, UpstreamAnswer(200, A_plain)) :
             k \in ApiKeys \ {RealKey}}
    \cup {Environment(TRUE, RealKey, UpstreamRejects),
          Environment(TRUE, RealKey, UpstreamAnswer(429, <<>>))}
    \cup {Environment(TRUE, RealKey, UpstreamAnswer(200, a)) : a \in AiResponses}

\* generateCode(message) in env, and then handleGenerate's test of
\* response.success: what the await resumes with. ok: the relay answered 2xx
\* with success true; otherwise error is the message of the Error thrown
\* (the fetch rejected, response.ok was false, or success was false)
generateCode(message, env) ==
    IF ~env.reachable
    THEN [ok |-> FALSE, code |-> <<>>, error |-> <<"Failed to fetch">>,
          upstreamRequests |-> 0, message |-> message, env |-> env]
    ELSE LET response == apiGenerate(message, env.apiKey, env.up) IN
         IF ~IsOk(response.status)
         THEN [ok |-> FALSE, code |-> <<>>,
               error |-> IF response.error # <<>> THEN response.error
                         ELSE <<"Failed to generate code">>,
               upstreamRequests |-> response.upstreamRequests,
               message |-> message, env |-> env]
         ELSE IF ~response.success
         THEN [ok |-> FALSE, code |-> <<>>,
               error |-> IF response.error # <<>> THEN response.error
                         ELSE <<"Generation failed">>,
               upstreamRequests |-> response.upstreamRequests,
               message |-> message, env |-> env]
         ELSE [ok |-> TRUE, code |-> response.code, error |-> <<>>,
               upstreamRequests |-> response.upstreamRequests,
               message |-> message, env |-> env]

\* the messages handleSend can pass on
SentTexts == {Trim(t) : t \in InputTexts} \ {<<>>}

\* what the await of handleGenerate may resume with
RelayOutcomes ==
    {generateCode(m, env) : m \in SentTexts, env \in RelayEnvironments}

\* ChatComponent.addMessage: options.code and options.error are shown when
\* truthy (<<>>: absent)
Message(type, content, code, error) ==
    [type |-> type, content |-> content, code |-> code, error |-> error]

TypingIndicator == Message("typing", <<>>, <<>>, <<>>)

SuccessText == <<"I've created your 3D model!">>
FailureText == <<"I encountered an issue creating that object.">>

\* ChatComponent.removeTypingIndicator: getElementById finds the first one
RECURSIVE removeTypingIndicator(_)
removeTypingIndicator(ms) ==
    IF ms = <<>> THEN <<>>
    ELSE IF Head(ms) = TypingIndicator THEN Tail(ms)
    ELSE <<Head(ms)>> \o removeTypingIndicator(Tail(ms))

\* a setLoading that leaves the component as it is
setLoading_Off(c, loading) == c

\* ChatComponent.setLoading
setLoading(c, loading) ==
    [c EXCEPT !.isLoading = loading, !.sendDisabled = loading,
              !.inputDisabled = loading]

AppAtRest ==
    /\ viewer = InitViewer
    /\ nextId = FirstUserId
    /\ messages = <<>>
    /\ chat = [isLoading |-> FALSE, sendDisabled |-> FALSE,
               inputDisabled |-> FALSE, inputValue |-> <<>>]
    /\ overlay = [loading |-> FALSE, viewerHidden |-> FALSE]
    /\ pending = <<>>
    /\ submissions = 0
    /\ lastExec = <<>>
    /\ shared = 0
    /\ requests = 0
    /\ log = <<>>
    /\ exported = <<>>

Init ==
    /\ AppAtRest
    /\ vCode = <<>>
    /\ vOut = <<>>
    /\ cParts = NoParts
    /\ cOut = <<>>

\* the user edits the textarea, as long as fewer than bound messages were
\* sent
Typing(bound) ==
    /\ ~chat.inputDisabled
    /\ submissions < bound
    /\ \E t \in InputTexts :
          /\ t # chat.inputValue
          /\ chat' = [chat EXCEPT !.inputValue = t]
    /\ UNCHANGED <<viewer, nextId, messages, overlay, pending, submissions,
                   lastExec, shared, requests, log, exported>>
    /\ UNCHANGED pureVars

TypeInput == Typing(MaxSubmissions)

\* ChatComponent.handleSend, and App.handleGenerate up to its await; at most
\* bound messages are sent
handleSend(bound) ==
    LET message == Trim(chat.inputValue) IN
    /\ UNCHANGED pureVars
    /\ IF message = <<>> \/ chat.isLoading
       THEN UNCHANGED appVars
       ELSE /\ submissions < bound
            /\ messages' = messages \o <<Message("user", message, <<>>, <<>>),
                                         TypingIndicator>>
            /\ chat' = setLoading([chat EXCEPT !.inputValue = <<>>], TRUE)
            /\ overlay' = [overlay EXCEPT !.loading = TRUE]
            /\ pending' = Append(pending, message)
            /\ submissions' = submissions + 1
            /\ requests' = requests + 1
            /\ UNCHANGED <<viewer, nextId, lastExec, shared, log, exported>>

HandleSend == handleSend(MaxSubmissions)

\* an entry of log: a pass of handleGenerate (called: it reached
\* executeThreeJSCode; node: the identity of the node returned, 0 if none)
PassEntry(code, beh, called, threw, node) ==
    [kind |-> "pass", code |-> code, beh |-> beh, called |-> called,
     threw |-> threw, node |-> node]

NoBehaviour == Behaviour("none", "noEntry", V_undefined, "none")

\* an entry of log: a click on Clear Scene
ClearEntry == [PassEntry(<<>>, NoBehaviour, FALSE, FALSE, 0) EXCEPT !.kind = "clear"]

\* App.handleGenerate from its await on, when the await resumes with r and
\* the fragment, if run, behaves as beh
ResumeGenerate(r, beh) ==
    IF ~r.ok
    THEN /\ messages' = Append(removeTypingIndicator(messages),
                               Message("ai", FailureText, <<>>, r.error))
         /\ lastExec' = <<[called |-> FALSE, code |-> <<>>, beh |-> beh,
                           before |-> viewer,
                           done |-> Completion(TRUE, V_undefined, 0, 0, 0,
                                               viewer, shared, 0),
                           added |-> 0, after |-> viewer, relay |-> r]>>
         /\ log' = Append(log, PassEntry(<<>>, beh, FALSE, TRUE, 0))
         /\ UNCHANGED <<viewer, nextId, overlay, shared>>
    ELSE \E cleanedCode \in {cleanCode(r.code)} :
         \E done \in {executeThreeJSCode(cleanedCode, beh, viewer, shared, nextId)} :
         \E after \in {IF done.threw THEN done.viewer
                        ELSE addObject(done.viewer, done.value)} :
            /\ viewer' = after
            /\ nextId' = nextId + done.allocated
            /\ shared' = done.store
            /\ overlay' = IF done.threw THEN overlay
                          ELSE [overlay EXCEPT !.viewerHidden = TRUE]
            \* catch (error): error.message throws when error is null, after
            \* removeTypingIndicator and before addMessage is called
            /\ messages' =
                 IF done.threw /\ done.value.nullish
                 THEN removeTypingIndicator(messages)
                 ELSE Append(removeTypingIndicator(messages),
                             IF done.threw
                             THEN Message("ai", FailureText, <<>>, done.value.msg)
                             ELSE Message("ai", SuccessText, cleanedCode, <<>>))
            /\ lastExec' = <<[called |-> TRUE, code |-> cleanedCode, beh |-> beh,
                              before |-> viewer, done |-> done,
                              added |-> IF done.threw THEN 0 ELSE 1,
                              after |-> after, relay |-> r]>>
            /\ log' = Append(log, PassEntry(cleanedCode, beh, TRUE, done.threw,
                                            IF done.threw THEN 0
                                            ELSE done.value.node.id))

\* the relay's answer arrives, one of outcomes, for a fragment that behaves
\* as one of behaviours[its text]: handleGenerate runs to its end
Resolve(outcomes, behaviours) ==
    /\ pending # <<>>
    /\ pending' = Tail(pending)
    /\ \E r \in outcomes :
          /\ r.message = Head(pending)
          /\ \E beh \in (IF r.ok THEN behaviours[cleanCode(r.code)]
                                 ELSE {NoBehaviour}) :
                ResumeGenerate(r, beh)
    /\ chat' = setLoading(chat, FALSE)
    /\ UNCHANGED <<submissions, requests, exported, pureVars>>

\* the behaviours of each fragment the relay can answer with
RelayBehaviours ==
    [code \in {cleanCode(ServerExtract(a)) : a \in AiResponses} |->
        BehavioursOf(code)]

RelayResolve == Resolve(RelayOutcomes, RelayBehaviours)

\* the Clear Scene button; log keeps the clicks that found a user object
ClearScene ==
    /\ viewer' = clearUserObjects(viewer)
    /\ overlay' = [overlay EXCEPT !.viewerHidden = FALSE]
    /\ log' = IF viewer.userObjects = <<>> THEN log
              ELSE Append(log, ClearEntry)
    /\ UNCHANGED <<nextId, messages, chat, pending, submissions, lastExec,
                   shared, requests, exported>>
    /\ UNCHANGED pureVars

Next ==
    \/ TypeInput
    \/ HandleSend
    \/ RelayResolve
    \/ ClearScene

Spec == Init /\ [][Next]_vars

-----------------------------------------------------------------------------
(* SpecValidate: executeThreeJSCode applied to one fragment                *)

InitValidate ==
    /\ vCode \in Fragments
    /\ vOut = <<>>
    /\ cParts = NoParts
    /\ cOut = <<>>
    /\ AppAtRest

SandboxCall ==
    /\ vOut = <<>>
    /\ \E beh \in ValidateBehaviours :
          vOut' = <<executeThreeJSCode(vCode, beh, InitViewer, 0, FirstUserId)>>
    /\ UNCHANGED <<vCode, cParts, cOut, appVars>>

NextValidate == SandboxCall

SpecValidate == InitValidate /\ [][NextValidate]_vars

-----------------------------------------------------------------------------
(* SpecClean: cleanCode applied to one raw text                            *)

InitClean ==
    /\ cParts \in RawParts
    /\ cOut = <<>>
    /\ vCode = <<>>
    /\ vOut = <<>>
    /\ AppAtRest

CleanCall ==
    /\ cOut = <<>>
    /\ cOut' = <<cleanCode(Assemble(cParts))>>
    /\ UNCHANGED <<cParts, vCode, vOut, appVars>>

NextClean == CleanCall

SpecClean == InitClean /\ [][NextClean]_vars


-----------------------------------------------------------------------------
(* SpecScene: the application when every answer of the relay is a fragment *)
(* that is accepted and returns a node, with the export buttons            *)

\* how many messages the user sends in SpecScene
MaxGenerations == 3

\* the kinds of THREE.Object3D a fragment returns
SceneKinds ==
    {"Mesh", "Group", "Object3D", "Line", "Points", "PointLight", "ShadowMesh"}

SceneAnswers == {A_plain, A_add, A_clear, A_cache}

SceneOutcomes ==
    {generateCode(m, Environment(TRUE, RealKey, UpstreamAnswer(200, a))) :
        m \in SentTexts, a \in SceneAnswers}

\* the behaviours of the fragment of text code that return a node
SceneBehaviours(code) ==
    LET e == FragmentEffect(code) IN
    IF Includes(code, S_cacheRef) THEN CacheOutcomes
    ELSE IF e = "none"
    THEN {Behaviour("none", "returnsNode", V_undefined, k) : k \in SceneKinds}
    ELSE {Behaviour(e, "returnsNode", V_undefined, "Mesh")}

\* child.isLight
IsLight(child) ==
    child.kind \in {"AmbientLight", "DirectionalLight", "PointLight"}

\* child.clone(): a new object that copies child
Clone(child) == [of |-> child.id, kind |-> child.kind]

\* exportGLTF, lines 18-29: the children of exportScene
GLTFScene(children) ==
    LET kept(child) ==
            /\ ~(child.kind = "GridHelper" \/ IsLight(child))
            /\ ~(child.material = "ShadowMaterial")
            /\ child.kind \in {"Mesh", "Group"}
        keptChildren == SelectSeq(children, kept)
    IN [i \in DOMAIN keptChildren |-> Clone(keptChildren[i])]

\* exportOBJ, lines 54-63: the children of exportScene
OBJScene(children) ==
    LET kept(child) ==
            /\ ~(child.kind = "GridHelper" \/ IsLight(child))
            /\ ~(child.material = "ShadowMaterial")
            /\ child.kind \in {"Mesh", "Group"}
        keptChildren == SelectSeq(children, kept)
    IN [i \in DOMAIN keptChildren |-> Clone(keptChildren[i])]

\* what a serializer was handed: entries, the children of exportScene; of:
\* the Scene Host at the time
Exported(format, entries, host) ==
    [format |-> format, entries |-> entries, of |-> host]

\* the Download GLTF button
ExportGLTF ==
    /\ exported' = IF viewer.userObjects = <<>>
                   THEN exported
                   ELSE <<Exported("gltf", GLTFScene(viewer.children), viewer)>>
    /\ UNCHANGED <<viewer, nextId, messages, chat, overlay, pending, submissions,
                   lastExec, shared, requests, log>>
    /\ UNCHANGED pureVars

\* the Download OBJ button
ExportOBJ ==
    /\ exported' = IF viewer.userObjects = <<>>
                   THEN exported
                   ELSE <<Exported("obj", OBJScene(viewer.children), viewer)>>
    /\ UNCHANGED <<viewer, nextId, messages, chat, overlay, pending, submissions,
                   lastExec, shared, requests, log>>
    /\ UNCHANGED pureVars

SceneType == Typing(MaxGenerations)

SceneSend == handleSend(MaxGenerations)

SceneTable ==
    [code \in {cleanCode(ServerExtract(a)) : a \in SceneAnswers} |->
        SceneBehaviours(code)]

SceneResolve == Resolve(SceneOutcomes, SceneTable)

NextScene ==
    \/ SceneType
    \/ SceneSend
    \/ SceneResolve
    \/ ClearScene
    \/ ExportGLTF
    \/ ExportOBJ

SpecScene == Init /\ [][NextScene]_vars

-----------------------------------------------------------------------------
(* Claims about the Validator (SpecValidate)                               *)

\* the call was rejected before any evaluation, with the given reason
RejectedWith(c, reason) ==
    /\ c.threw
    /\ c.compiled = 0 /\ c.ran = 0 /\ c.createCalls = 0
    /\ c.value.msg = reason

FetchReason ==
    <<"Security violation", ": Forbidden pattern detected (",
      "\\bfetch\\s*\\(", ")">>

StructuralText ==
    <<"Code must contain a \"function createObject()\" definition">>

MatchesNoRule(code) ==
    \A n \in DOMAIN FORBIDDEN_PATTERNS : ~PatternTest(FORBIDDEN_PATTERNS[n], code)

\* C2, as stated: every fragment that contains the text fetch( anywhere,
\* whatever precedes it, is rejected with the reason of the fetch rule and is
\* never evaluated.
C2_FetchAnywhere ==
    (vOut # <<>> /\ Includes(vCode, S_fetchCall))
        => RejectedWith(vOut[1], FetchReason)

\* C2, amended: every fragment that contains the text fetch( at a place where
\* no word character (letter, digit, underscore) comes right before it is
\* rejected with the reason of the fetch rule and is never evaluated.
C2_FetchAtWordStart ==
    \A i \in 1..Len(vCode) :
        (vOut # <<>> /\ OccursAt(vCode, i, S_fetchCall) /\ ~IsWordAt(vCode, i - 1))
            => RejectedWith(vOut[1], FetchReason)

\* a fragment with fetch( after a dot was rejected with the reason of the
\* fetch rule
C2_Witness ==
    /\ vOut # <<>>
    /\ \E i \in 2..Len(vCode) :
          OccursAt(vCode, i, S_fetchCall) /\ vCode[i - 1] = "."
    /\ RejectedWith(vOut[1], FetchReason)

\* the index i of code lies in a // comment
InLineComment(code, i) ==
    \E j \in 1..(i - 1) :
        /\ OccursAt(code, j, <<"/", "/">>)
        /\ \A k \in j..i : code[k] # "\n"

\* code holds a definition function createObject() outside a comment
DefinesEntryPoint(code) ==
    \E i \in 1..Len(code) :
        /\ OccursAt(code, i, S_functionCreateObject)
        /\ OccursAt(code, SkipSpace(code, i + Len(S_functionCreateObject)),
                    <<"(", ")">>)
        /\ ~InLineComment(code, i)

\* C3, as stated: every fragment without a definition of createObject() is
\* rejected with the structural-requirement reason, also when it holds
\* deny-listed text, and when it holds the text 'function createObject' only
\* as the start of another name or in a comment.
C3_NoEntryPointIsStructural ==
    (vOut # <<>> /\ ~DefinesEntryPoint(vCode))
        => RejectedWith(vOut[1], StructuralText)

\* C3, amended: every fragment that matches no deny-list rule and does not
\* contain the text 'function createObject' is rejected, unevaluated, with
\* the structural-requirement reason, which differs from the reason of every
\* deny-list rule.
C3_NoEntryTextIsStructural ==
    /\ (vOut # <<>> /\ MatchesNoRule(vCode)
            /\ ~Includes(vCode, S_functionCreateObject))
          => RejectedWith(vOut[1], StructuralText)
    /\ \A n \in DOMAIN FORBIDDEN_PATTERNS :
          SecurityViolation(FORBIDDEN_PATTERNS[n]) # StructuralReason

\* a fragment with text in it, no rule matching and no entry point's text
\* was rejected with the structural reason
C3_Witness ==
    /\ vOut # <<>>
    /\ Len(vCode) > 1
    /\ MatchesNoRule(vCode)
    /\ ~Includes(vCode, S_functionCreateObject)
    /\ RejectedWith(vOut[1], StructuralText)

-----------------------------------------------------------------------------
(* Claims about the Code Extractor (SpecClean)                             *)

\* the raw text is wrap_in_fence(inner): the opening marker, no hint or js
\* or javascript, an optional newline, inner without a marker in it, the
\* closing marker
IsWrap(parts) ==
    /\ parts.prefix = <<>> /\ parts.suffix = <<>> /\ parts.closed
    /\ parts.hint \in {<<>>, S_js, S_javascript}
    /\ ~Includes(parts.inner, S_fence)

EndsWithBacktick(x) == x # <<>> /\ x[Len(x)] = BT

\* C9, as stated: cleanCode(wrap_in_fence(x)) = trim(x) for every x without
\* a fence terminator, also when x begins with js or javascript and the
\* fence has no newline after the opening marker.
C9_RoundTrip ==
    (cOut # <<>> /\ IsWrap(cParts)) => cOut[1] = Trim(cParts.inner)

\* C9, amended: cleanCode(wrap_in_fence(x)) = trim(x) for every x that holds
\* no fence terminator and does not end with a backtick, unless the fence is
\* written with neither a hint nor a newline after the opening marker and x
\* begins with js or javascript.
C9_RoundTripUnambiguous ==
    (/\ cOut # <<>>
     /\ IsWrap(cParts)
     /\ ~EndsWithBacktick(cParts.inner)
     /\ ~(/\ cParts.hint = <<>>
          /\ cParts.nl = <<>>
          /\ (OccursAt(cParts.inner, 1, S_js)
                \/ OccursAt(cParts.inner, 1, S_javascript))))
        => cOut[1] = Trim(cParts.inner)

\* x begins with js and ends with white space, in a fence with hint js and no
\* newline: the hint is stripped, x comes back trimmed
C9_Witness ==
    /\ cOut # <<>>
    /\ IsWrap(cParts)
    /\ cParts.hint = S_js
    /\ cParts.nl = <<>>
    /\ OccursAt(cParts.inner, 1, S_js)
    /\ Trim(cParts.inner) # cParts.inner
    /\ cOut[1] = S_js

HasBacktick(x) == \E i \in DOMAIN x : x[i] = BT

\* C10, as stated, on the texts where the block is plain to see (the hint, of
\* any tag, ends with a newline; no backtick in the inner text): cleanCode
\* returns the trimmed inner text of the first fenced block without its hint;
\* and the whole text trimmed when the text has no closing marker.
C10_FirstBlockAnyHint ==
    cOut # <<>> =>
        /\ (cParts.closed /\ cParts.nl # <<>> /\ ~HasBacktick(cParts.inner))
              => cOut[1] = Trim(cParts.inner)
        /\ (~cParts.closed /\ cParts.suffix = <<>> /\ ~HasBacktick(cParts.inner))
              => cOut[1] = Trim(Assemble(cParts))

-----------------------------------------------------------------------------
(* Claims about the pipeline (Spec), stated on the last pass of            *)
(* handleGenerate that reached executeThreeJSCode                          *)

Executed == lastExec # <<>> /\ lastExec[1].called

\* the fragments the relay outcomes of the model lead to
SeenFragments == {cleanCode(ServerExtract(a)) : a \in AiResponses}

DenyListedFragments == {c \in SeenFragments : ~MatchesNoRule(c)}

ValidFragments == {c \in SeenFragments : validateCode(c).valid}

Wrapper == "Code execution failed: "

NullOrUndefinedText == "createObject() returned null or undefined"

ExpectedText == "Expected THREE.Object3D but got "

SameScene(a, b) ==
    a.children = b.children /\ a.userObjects = b.userObjects

\* C1: a fragment that matches a deny-list rule is never compiled, never run,
\* createObject is never invoked, no node reaches addObject and the scene is
\* left as it was; and whenever a fragment is compiled, validateCode has
\* reported it valid.
C1_RejectBeforeEvaluation ==
    Executed =>
        LET e == lastExec[1] IN
        /\ e.code \in SeenFragments
        /\ e.code \in DenyListedFragments =>
              /\ e.done.threw
              /\ e.done.compiled = 0 /\ e.done.ran = 0 /\ e.done.createCalls = 0
              /\ e.added = 0
              /\ e.after = e.before
        /\ e.done.compiled > 0 => e.code \in ValidFragments

\* a deny-listed fragment was submitted after an object had been added, and
\* was rejected unevaluated
C1_Witness ==
    /\ Executed
    /\ lastExec[1].code \in DenyListedFragments
    /\ lastExec[1].before.userObjects # <<>>
    /\ lastExec[1].done.compiled = 0
    /\ MessageIncludes(lastExec[1].done.value.msg, "Security violation")
    /\ viewer = lastExec[1].before

\* C4: an accepted fragment whose createObject returns an Object3D: the call
\* invokes createObject once, returns that node, and the scene's children
\* and userObjects and the chat are the same after the call as before it.
C4_ReturnsNodeAndNothingElse ==
    (Executed /\ lastExec[1].code \in ValidFragments
        /\ lastExec[1].beh.outcome = "returnsNode") =>
        LET e == lastExec[1] IN
        /\ ~e.done.threw
        /\ e.done.createCalls = 1
        /\ e.done.value.isObject3D
        /\ e.done.value.node.kind = e.beh.kind
        /\ SameScene(e.done.viewer, e.before)

\* C5: an accepted fragment whose createObject returns null, undefined or a
\* value that is not an Object3D: the call fails with a result-kind error,
\* addObject is not called and the scene is unchanged.
C5_NonQualifyingLeavesScene ==
    (Executed /\ lastExec[1].code \in ValidFragments
        /\ lastExec[1].beh.outcome = "returns") =>
        LET e == lastExec[1] IN
        /\ e.done.threw
        /\ \/ MessageIncludes(e.done.value.msg, NullOrUndefinedText)
           \/ MessageIncludes(e.done.value.msg, ExpectedText)
        /\ e.added = 0
        /\ SameScene(e.after, e.before)

\* C6: a returned value that is present but not an Object3D (0, false, NaN,
\* '', a plain object, an object without constructor among them) makes the
\* failure describe the value's kind and not say 'null or undefined'.
C6_PresentValueNamesKind ==
    (Executed /\ lastExec[1].code \in ValidFragments
        /\ lastExec[1].beh.outcome = "returns"
        /\ ~lastExec[1].beh.value.nullish) =>
        LET e == lastExec[1] IN
        /\ e.done.threw
        /\ ~MessageIncludes(e.done.value.msg, NullOrUndefinedText)
        /\ \/ MessageIncludes(e.done.value.msg, e.beh.value.ctorName)
           \/ MessageIncludes(e.done.value.msg, e.beh.value.typeof)

\* C7: a failure that is not wrapped as 'Code execution failed: ' comes only
\* from a fragment that was never evaluated; every failure of a fragment
\* that was evaluated is wrapped, whatever value was thrown.
C7_UnwrappedOnlyUnevaluated ==
    (Executed /\ lastExec[1].done.threw /\ lastExec[1].done.compiled > 0) =>
        /\ lastExec[1].done.value.msg # <<>>
        /\ lastExec[1].done.value.msg[1] = Wrapper

\* C8: when createObject throws (an Error, a string, null), the call fails
\* with the execution-error reason and after handleGenerate the scene is
\* unchanged.
C8_ThrowIsExecutionError ==
    (Executed /\ lastExec[1].code \in ValidFragments
        /\ lastExec[1].beh.outcome = "throws") =>
        LET e == lastExec[1] IN
        /\ e.done.threw
        /\ e.done.value.msg # <<>>
        /\ e.done.value.msg[1] = Wrapper
        /\ e.added = 0
        /\ SameScene(e.after, e.before)

-----------------------------------------------------------------------------
(* Claims about the scene (SpecScene)                                      *)

\* every submission so far has run to its end, each pass adopted the node
\* its fragment returned, no fragment touched the scene itself, and Clear
\* Scene was never clicked
OnlyGenerations ==
    /\ pending = <<>>
    /\ \A i \in DOMAIN log :
          /\ log[i].kind = "pass"
          /\ log[i].called /\ ~log[i].threw
          /\ log[i].beh.effect = "none"

\* the identities of a sequence of nodes
Ids(nodes) == [i \in DOMAIN nodes |-> nodes[i].id]

IsChild(v, id) == \E i \in DOMAIN v.children : v.children[i].id = id

\* one user node is disposed of and removed, as clearUserObjects does for
\* each of them
DisposeOne(v, id) ==
    [children |-> WithoutId(v.children, id),
     userObjects |-> WithoutId(v.userObjects, id),
     camera |-> v.camera]

\* C11: after n accepted fragments submitted in sequence, each producing one
\* node, with no clear in between, userObjects holds exactly the n nodes
\* returned, all distinct and in submission order, each a child of the
\* scene; disposing of any one of them leaves the other n-1 in the scene.
C11_SequenceOwnsEachNode ==
    OnlyGenerations =>
        LET n == Len(log) IN
        /\ Len(viewer.userObjects) = n
        /\ \A i \in 1..n : viewer.userObjects[i].id = log[i].node
        /\ \A i, j \in 1..n : i # j => log[i].node # log[j].node
        /\ \A i \in 1..n : IsChild(viewer, log[i].node)
        /\ \A i \in 1..n :
              LET rest == DisposeOne(viewer, log[i].node) IN
              /\ Len(rest.userObjects) = n - 1
              /\ \A j \in 1..n : j # i => IsChild(rest, log[j].node)

\* the identities of the nodes a Scene Host lists as user objects
UserIds(v) == {v.userObjects[i].id : i \in DOMAIN v.userObjects}

\* C12: the scene handed to the GLTF serializer and to the OBJ serializer
\* holds exactly one clone for each user node of the Scene Host and none
\* for an infrastructure node, whatever kind of Object3D the Executor
\* accepted: mesh, group, plain Object3D, line, points, light, or mesh with
\* a shadow material.
C12_ExportHoldsEveryUserNode ==
    \A e \in DOMAIN exported :
        LET entries == exported[e].entries
            users   == UserIds(exported[e].of)
        IN /\ {entries[i].of : i \in DOMAIN entries} = users
           /\ Len(entries) = Cardinality(users)

\* C14: when executeThreeJSCode is invoked twice with the same accepted
\* fragment, with any other invocations and clears in between, the two
\* passes end alike and the two nodes returned are distinct: nothing the
\* first pass left behind reaches the second.
C14_PassesShareNothing ==
    \A i, j \in DOMAIN log :
        (/\ i < j
         /\ log[i].kind = "pass" /\ log[j].kind = "pass"
         /\ log[i].called /\ log[j].called
         /\ log[i].code = log[j].code
         /\ log[i].beh = log[j].beh)
        => /\ log[i].threw = log[j].threw
           /\ ~log[i].threw => log[i].node # log[j].node

InfraIds == {InfraNodes[i].id : i \in DOMAIN InfraNodes}

ChildIds(v) == {v.children[i].id : i \in DOMAIN v.children}

\* C16: under any interleaving of successful generations and Clear Scene
\* clicks, userObjects lists exactly the top-level children of the scene
\* that are not infrastructure, each once; clearUserObjects empties it,
\* removes exactly those nodes and leaves the lights, the grid and the
\* ground plane in place; and the export guard (userObjects empty) is true
\* exactly when the scene has no user node.
C16_UserObjectsAreTheUserChildren ==
    /\ \A i, j \in DOMAIN viewer.userObjects :
          i # j => viewer.userObjects[i].id # viewer.userObjects[j].id
    /\ UserIds(viewer) = ChildIds(viewer) \ InfraIds
    /\ InfraIds \subseteq ChildIds(viewer)
    /\ clearUserObjects(viewer).userObjects = <<>>
    /\ Ids(clearUserObjects(viewer).children) = Ids(InfraNodes)
    /\ (viewer.userObjects = <<>>) <=> (ChildIds(viewer) \subseteq InfraIds)

\* the same without the demand that each node is listed once
C16_ExceptDuplicates ==
    /\ UserIds(viewer) = ChildIds(viewer) \ InfraIds
    /\ InfraIds \subseteq ChildIds(viewer)
    /\ clearUserObjects(viewer).userObjects = <<>>
    /\ Ids(clearUserObjects(viewer).children) = Ids(InfraNodes)
    /\ (viewer.userObjects = <<>>) <=> (ChildIds(viewer) \subseteq InfraIds)

-----------------------------------------------------------------------------
(* Claims about the relay and the chat (Spec)                              *)

\* this step is handleGenerate resuming from its await
Resumes == pending # <<>> /\ pending' = Tail(pending)

\* the relay is reached and has no usable API key
KeyMissing(r) ==
    r.env.reachable /\ r.env.apiKey \in {"", "your_api_key_here"}

\* C13: when the relay call fails (API key missing or a placeholder, so that
\* the relay answers non-2xx without a request upstream; the relay cannot be
\* reached; upstream answers non-2xx), the client has made exactly one
\* request for the submission, the fragment pipeline is not run, the failure
\* is shown as one error message in the chat, and scene.children and
\* userObjects are unchanged.
C13_RelayFailureIsOneError ==
    [][Resumes =>
        LET pass == lastExec'[1]
            r    == pass.relay
        IN /\ KeyMissing(r) =>
                 /\ ~r.ok
                 /\ r.upstreamRequests = 0
                 /\ r.error = <<"OpenRouter API key not configured">>
           /\ ~r.env.reachable \/ r.env.up.rejects \/ ~IsOk(r.env.up.status)
                 => ~r.ok
           /\ ~r.ok =>
                 /\ requests = submissions /\ requests' = requests
                 /\ ~pass.called
                 /\ pass.done.compiled = 0 /\ pass.done.ran = 0
                 /\ viewer' = viewer
                 /\ messages' = Append(removeTypingIndicator(messages),
                                       Message("ai", FailureText, <<>>, r.error))
                 /\ r.error # <<>>
    ]_vars

\* a submission failed for want of an API key while the scene held a user
\* node
C13_Witness ==
    /\ lastExec # <<>>
    /\ KeyMissing(lastExec[1].relay)
    /\ ~lastExec[1].relay.ok
    /\ viewer.userObjects # <<>>
    /\ pending = <<>>

\* how many messages of a type the chat shows
Shown(type) ==
    Cardinality({i \in DOMAIN messages : messages[i].type = type})

OneOfCodeOrError(m) == (m.code # <<>>) # (m.error # <<>>)

\* C17: every submission ends in exactly one outcome. Once the relay call
\* has settled and handleGenerate has run to its end, the typing indicator
\* is gone, isLoading is false with the send button and the input enabled
\* again, and exactly one AI message was appended for the submission: the
\* success message with the code or the error message with the reason.
C17_OneOutcomePerSubmission ==
    pending = <<>> =>
        /\ Shown("typing") = 0
        /\ ~chat.isLoading /\ ~chat.sendDisabled /\ ~chat.inputDisabled
        /\ Shown("ai") = submissions
        /\ \A i \in DOMAIN messages :
              messages[i].type = "ai" => OneOfCodeOrError(messages[i])

\* the same for the submissions whose fragment did not throw null or
\* undefined out of executeThreeJSCode
C17_ExceptNullishThrow ==
    (\A i \in DOMAIN log : log[i].beh.value # V_trap) =>
        C17_OneOutcomePerSubmission

=============================================================================
